---------------------------- MODULE Spec2Model ----------------------------
(***************************************************************************)
(* Face-detection backend of videopy: the FaceDetector singleton           *)
(* (backend/face_detector.py) with its single-flight flag, its frame       *)
(* sampling loop, its report file and its staleness oracle, run by         *)
(* several request threads of the Flask application (backend/app.py),      *)
(* and the application's stream encoder supervisor (convert_to_hls) and     *)
(* query endpoints.                                                        *)
(***************************************************************************)
EXTENDS Integers, Sequences, FiniteSets, TLC

(***************************************************************************)
(* Bounds of the model.                                                    *)
(***************************************************************************)
\* request threads that may call FaceDetector.process_video concurrently
NumThreads == 2
\* largest frame count of a video (two full strides and one frame more)
MaxFrames == 31
\* the wall clock runs from 0 to MaxTime
MaxTime == 1
\* largest stride of the stride-generic specification
MaxStride == 3
\* frame sizes of the box specification run from MinDim to MinDim + DimSpan
DimSpan == 3
\* frame rate of the videos that have one
NominalFps == 30
\* calls of convert_to_hls in one run of the server
MaxStarts == 2

(***************************************************************************)
(* Program constants.                                                      *)
(***************************************************************************)
\* frame_step = 15
FrameStep == 15
\* progress is logged every frame_step * 10 frames
ProgressEvery == 10
\* scale_factor = 0.5, kept as the fraction ScaleNum / ScaleDen
ScaleNum == 1
ScaleDen == 2
\* minSize = (20, 20)
MinSize == 20
\* smallest frame side whose half-resolution image can hold a MinSize box
MinDim == (MinSize * ScaleDen) \div ScaleNum
\* for _ in range(60)
PollLimit == 60

Threads == 1..NumThreads

VARIABLES
    processing,     \* FaceDetector._processing
    pc,             \* per thread: where it stands in process_video
    cap,            \* per thread: the cv2.VideoCapture handle
    stream,         \* per thread: the frames behind the handle
    frame_count,    \* per thread: int(cap.get(CAP_PROP_FRAME_COUNT))
    current_frame,  \* per thread: frames the read loop has iterated
    face_data,      \* per thread: the records accumulated by the loop
    sampled,        \* per thread: frame indices handed to the detector
    ret,            \* per thread: the value process_video returned
    frame_step,     \* the sampling stride
    video,          \* the source video file
    report,         \* the report file face_data.json
    now,            \* the wall clock that stamps modification times
    fresh,          \* a report was completed and the video not touched since
    oracle,         \* the last should_process_video call: inputs and result
    hpc,            \* per caller: where it stands in convert_to_hls
    attempts,       \* per caller: checks of the playlist that failed
    own,            \* per caller: the worker its call launched
    seen,           \* per caller: the writer of the playlist it found ready
    removed,        \* per caller: the state of the playlist its call removed
    hret,           \* per caller: what convert_to_hls returned
    calls,          \* calls of convert_to_hls begun so far
    live,           \* the ffmpeg workers that are running
    playlist,       \* streams/sample/playlist.m3u8
    resp,           \* per thread: the answer of the process_video endpoint
    face_resp       \* the last answer of the face_data endpoint

\* the stream encoder supervisor and its output directory
hls == <<hpc, attempts, own, seen, removed, hret, calls, live, playlist>>

\* the answers of the query endpoints
query == <<resp, face_resp>>

vars == <<processing, pc, cap, stream, frame_count, current_frame, face_data,
          sampled, ret, frame_step, video, report, now, fresh, oracle,
          hls, query>>

locals == <<cap, stream, frame_count, current_frame, face_data, sampled>>

(***************************************************************************)
(* Files.                                                                  *)
(***************************************************************************)
\* the index of no frame of any video
NoFrame == MaxFrames + 1

EmptyBody == [kind |-> "empty"]
PartialBody == [kind |-> "partial"]
CompleteBody(data) == [kind |-> "complete", data |-> data]

AbsentReport == [exists |-> FALSE, mtime |-> 0, body |-> EmptyBody]

\* open(output_path, 'w'): the file is created or truncated to zero bytes
Truncate(t) == [exists |-> TRUE, mtime |-> t, body |-> EmptyBody]

\* bytes of the report reach the file; its modification time is the clock's
StoreBody(body, t) == [exists |-> TRUE, mtime |-> t, body |-> body]

(***************************************************************************)
(* Staleness oracle.                                                       *)
(***************************************************************************)
\* the comparison lets an equal time through
should_process_video_ge(v, r) ==
    IF ~r.exists THEN TRUE
    ELSE IF ~v.exists THEN FALSE
    ELSE v.mtime >= r.mtime

\* the comparison is turned around
should_process_video_reversed(v, r) ==
    IF ~r.exists THEN TRUE
    ELSE IF ~v.exists THEN FALSE
    ELSE v.mtime < r.mtime

should_process_video(v, r) ==
    IF ~r.exists THEN TRUE
    ELSE IF ~v.exists THEN FALSE
    ELSE v.mtime > r.mtime

(***************************************************************************)
(* Detector: downscale, cascade, scale back.                               *)
(***************************************************************************)
\* the half-resolution size rounded up instead of truncated
SmallSizeRoundsUp(n) == (n * ScaleNum + ScaleDen - 1) \div ScaleDen

\* int(width * scale_factor)
SmallSize(n) == (n * ScaleNum) \div ScaleDen

\* int(x / scale_factor)
ScaleCoord(c) == (c * ScaleDen) \div ScaleNum

\* the boxes the cascade can return on a w x h image: inside the image and
\* at least MinSize on each side
CascadeBoxes(w, h) ==
    { [x |-> x, y |-> y, w |-> bw, h |-> bh] :
        x \in 0..w, y \in 0..h, bw \in MinSize..w, bh \in MinSize..h }

InsideBoxes(w, h) ==
    { b \in CascadeBoxes(w, h) : b.x + b.w <= w /\ b.y + b.h <= h }

\* face_cascade.detectMultiScale on frame i of the video: the face is seen
\* in the leading v.visible frames, at v.box of the half-resolution image
detectMultiScale(v, i) == IF i < v.visible THEN <<v.box>> ELSE << >>

\* faces = [(int(x/scale_factor), ...) for x, y, w, h in faces] and the
\* dictionaries built from them
ScaleBack(faces) ==
    [k \in 1..Len(faces) |->
        [x |-> ScaleCoord(faces[k].x), y |-> ScaleCoord(faces[k].y),
         width |-> ScaleCoord(faces[k].w), height |-> ScaleCoord(faces[k].h)]]

\* str(timedelta(seconds=current_frame/fps)): whole seconds and the rest
Timestamp(i, fps) == <<i \div fps, i % fps>>


(***************************************************************************)
(* The read loop of process_video.                                         *)
(***************************************************************************)
\* the stride counted from one: frames step-1, 2*step-1, ...
IsSelectedFromOne(i, step) == (i + 1) % step = 0

\* current_frame % frame_step == 0
IsSelected(i, step) == i % step = 0

\* what raises while a selected frame is handled: the progress division by
\* frame_count, the timestamp division by fps, frame.shape of a frame that
\* was not decoded
Raises(v, fc, step, i) ==
    \/ i % (step * ProgressEvery) = 0 /\ fc = 0
    \/ v.fps = 0
    \/ v.corrupt = i

\* the dictionary appended to face_data
FrameData(i, fps, faces) ==
    [frame |-> i, timestamp |-> Timestamp(i, fps), faces |-> faces]

\* a record for every sampled frame, faces or none
AppendAlways(data, i, fps, faces) == Append(data, FrameData(i, fps, faces))

\* if len(faces) > 0: face_data.append(frame_data)
AppendDetections(data, i, fps, faces) ==
    IF Len(faces) > 0 THEN Append(data, FrameData(i, fps, faces)) ELSE data

\* while True: cap.read() ... current_frame += 1, from frame cur on.  The
\* loop ends when cap.read() returns no frame, or leaves by an exception.
RECURSIVE ReadLoop(_, _, _, _, _, _)
ReadLoop(v, fc, step, cur, data, smp) ==
    IF cur >= v.readable
    THEN [raised |-> FALSE, current_frame |-> cur, face_data |-> data,
          sampled |-> smp]
    ELSE IF IsSelected(cur, step)
    THEN IF Raises(v, fc, step, cur)
         THEN [raised |-> TRUE, current_frame |-> cur, face_data |-> data,
               sampled |-> smp]
         ELSE LET faces == ScaleBack(detectMultiScale(v, cur))
              IN  ReadLoop(v, fc, step, cur + 1,
                           AppendDetections(data, cur, v.fps, faces),
                           Append(smp, cur))
    ELSE ReadLoop(v, fc, step, cur + 1, data, smp)

\* processed_frames counts the sampled frames only
MetadataCountsSampled(fc, fps, cur, step) ==
    [total_frames |-> fc, fps |-> fps,
     processed_frames |-> (cur + step - 1) \div step, step_size |-> step]

\* the "metadata" object of the report
Metadata(fc, fps, cur, step) ==
    [total_frames |-> fc, fps |-> fps, processed_frames |-> cur,
     step_size |-> step]

\* the object json.dump writes
ReportData(data, fc, fps, cur, step) ==
    [face_detections |-> data, metadata |-> Metadata(fc, fps, cur, step)]

(***************************************************************************)
(* Initial states.                                                         *)
(***************************************************************************)
\* the frames cap.read() yields lie within one of the container's count
Readables(fc) == { n \in 0..MaxFrames : n - fc \in {-1, 0, 1} }

\* a frame that fails to decode, if any: the first, or the second sampled
Corrupts == {NoFrame, 0, FrameStep}

\* the box the cascade reports in the videos of the main specification
DefaultBox == [x |-> 0, y |-> 0, w |-> MinSize, h |-> MinSize]

\* what a video file holds: the container's frame count, the frames that
\* decode, the frame rate, the frame size, the frames showing the face and
\* where the cascade finds it, the frame that fails to decode
Content(fc, rd, fps, w, h, vis, box, bad) ==
    [frame_count |-> fc, readable |-> rd, fps |-> fps, width |-> w,
     height |-> h, visible |-> vis, box |-> box, corrupt |-> bad]

\* no video behind a handle
NoStream == Content(0, 0, 0, 0, 0, 0, DefaultBox, NoFrame)

VideoFile(ex, t, c) == [exists |-> ex, mtime |-> t, content |-> c]

\* the videos of the main specification: one that plays to its end and one
\* whose second sampled frame fails to decode
Contents ==
    { Content(FrameStep + 1, FrameStep + 1, NominalFps, MinDim + 1, MinDim,
              MaxFrames, DefaultBox, bad) : bad \in {NoFrame, FrameStep} }

\* the videos of the loop specification: every frame count, a container
\* count that is off by one, a zero frame rate, a face in every frame, in
\* the first FrameStep + 1 frames or in none, a frame that fails to decode
LoopContents ==
    UNION { { Content(fc, rd, fps, MinDim + 1, MinDim, vis, DefaultBox, bad) :
                rd \in Readables(fc), fps \in {0, NominalFps},
                vis \in {0, FrameStep + 1, MaxFrames}, bad \in Corrupts } :
            fc \in 0..MaxFrames }

\* the videos of the box specification: one frame showing a face, every
\* frame size from MinDim on and every box inside its half-resolution image
BoxContents ==
    UNION { { Content(1, 1, NominalFps, w, h, 1, b, NoFrame) :
                b \in InsideBoxes(SmallSize(w), SmallSize(h)) } :
            w \in MinDim..(MinDim + DimSpan), h \in MinDim..(MinDim + DimSpan) }

NoOracle == [called |-> FALSE]

\* the calls of convert_to_hls (by start_hls_conversion when the server
\* starts, then by the start_stream endpoint) are taken one after the other;
\* the workers they launch run on beside the later calls
Callers == {"start_stream"}

\* the workers are numbered by the call that launched them
Workers == 1..MaxStarts

\* the playlist file: absent, created but still empty, or written, and the
\* worker that wrote it (0: a run of the server before this one)
NoPlaylist == [state |-> "absent", writer |-> 0]

OldPlaylist == [state |-> "full", writer |-> 0]

\* os.path.exists and os.path.getsize of the playlist
Exists(p) == p.state # "absent"

GetSize(p) == IF p.state = "full" THEN 1 ELSE 0

\* os.path.exists(m3u8_path) and os.path.getsize(m3u8_path) > 0
IsReady(p) == Exists(p) /\ GetSize(p) > 0

\* ready as soon as the playlist file is there
get_video_exists_only(p) == IF Exists(p) THEN "ready" ELSE "not_ready"

\* the get_video endpoint: the playlist reference, or "not ready"
get_video(p) == IF Exists(p) /\ GetSize(p) > 0 THEN "ready" ELSE "not_ready"

\* the answer of the process_video endpoint of a thread, and of face_data:
\* the status (0: no request yet, 1: the request is being served), whether
\* it was "cached", whether process_video was called for it, and what the
\* request found: a report that can be reused, a session running, no report
NoResponse == [status |-> 0, cached |-> FALSE, ran |-> FALSE,
               reusable |-> FALSE, running |-> FALSE, first |-> FALSE]

InitSupervisor ==
    /\ hpc = [c \in Callers |-> "idle"]
    /\ attempts = [c \in Callers |-> 0]
    /\ own = [c \in Callers |-> 0]
    /\ seen = [c \in Callers |-> 0]
    /\ removed = [c \in Callers |-> "absent"]
    /\ hret = [c \in Callers |-> "none"]
    /\ calls = 0
    /\ live = {}

InitQuery ==
    /\ resp = [t \in Threads |-> NoResponse]
    /\ face_resp = NoResponse

InitSession(steps) ==
    /\ processing = FALSE
    /\ pc = [t \in Threads |-> "idle"]
    /\ cap = [t \in Threads |-> "none"]
    /\ stream = [t \in Threads |-> NoStream]
    /\ frame_count = [t \in Threads |-> 0]
    /\ current_frame = [t \in Threads |-> 0]
    /\ face_data = [t \in Threads |-> << >>]
    /\ sampled = [t \in Threads |-> << >>]
    /\ ret = [t \in Threads |-> "none"]
    /\ frame_step \in steps
    /\ fresh = FALSE
    /\ oracle = NoOracle
    /\ InitSupervisor
    /\ InitQuery

\* the server starts with a video in place or none, and no report
InitWith(steps, contents) ==
    /\ InitSession(steps)
    /\ video \in { VideoFile(ex, 0, c) : ex \in BOOLEAN, c \in contents }
    /\ report = AbsentReport
    /\ now = 0
    /\ playlist = NoPlaylist

Init == InitWith({FrameStep}, Contents)

(***************************************************************************)
(* FaceDetector.process_video, one action per step that reads or writes    *)
(* state another thread can see.                                           *)
(***************************************************************************)
\* the failure path returns False and leaves the flag as it is
FailKeepsFlag(t) ==
    /\ processing' = processing
    /\ ret' = [ret EXCEPT ![t] = "False"]
    /\ pc' = [pc EXCEPT ![t] = "returned"]

\* the except clause, and the failure branch of the open: reset the flag
\* and return False
Fail(t) ==
    /\ processing' = FALSE
    /\ ret' = [ret EXCEPT ![t] = "False"]
    /\ pc' = [pc EXCEPT ![t] = "returned"]

\* the rejected call clears the flag on its way out
GuardClearsFlag(t) ==
    /\ pc[t] = "idle"
    /\ IF processing
       THEN /\ ret' = [ret EXCEPT ![t] = "False"]
            /\ pc' = [pc EXCEPT ![t] = "returned"]
            /\ processing' = FALSE
       ELSE /\ pc' = [pc EXCEPT ![t] = "set"]
            /\ UNCHANGED <<ret, processing>>
    /\ UNCHANGED <<locals, frame_step, video, report, now, fresh, oracle,
                   hls, query>>

\* if self._processing: return False
Guard(t) ==
    /\ pc[t] = "idle"
    /\ IF processing
       THEN /\ ret' = [ret EXCEPT ![t] = "False"]
            /\ pc' = [pc EXCEPT ![t] = "returned"]
       ELSE /\ pc' = [pc EXCEPT ![t] = "set"]
            /\ ret' = ret
    /\ UNCHANGED <<processing, locals, frame_step, video, report, now,
                   fresh, oracle,
                   hls, query>>

\* self._processing = True
SetRunning(t) ==
    /\ pc[t] = "set"
    /\ processing' = TRUE
    /\ pc' = [pc EXCEPT ![t] = "open"]
    /\ UNCHANGED <<locals, ret, frame_step, video, report, now, fresh,
                   oracle,
                   hls, query>>

\* cap = cv2.VideoCapture(video_path); if not cap.isOpened(): ...
OpenVideo(t) ==
    /\ pc[t] = "open"
    /\ IF video.exists
       THEN /\ cap' = [cap EXCEPT ![t] = "open"]
            /\ stream' = [stream EXCEPT ![t] = video.content]
            /\ frame_count' =
                   [frame_count EXCEPT ![t] = video.content.frame_count]
            /\ pc' = [pc EXCEPT ![t] = "loop"]
            /\ UNCHANGED <<processing, ret>>
       ELSE /\ cap' = [cap EXCEPT ![t] = "closed"]
            /\ UNCHANGED <<stream, frame_count>>
            /\ Fail(t)
    /\ UNCHANGED <<current_frame, face_data, sampled, frame_step, video,
                   report, now, fresh, oracle,
                   hls, query>>

\* the loop saves what it has when it is left by an exception
RunLoopSavesPartial(t) ==
    /\ pc[t] = "loop"
    /\ LET r == ReadLoop(stream[t], frame_count[t], frame_step, 0, << >>,
                         << >>)
       IN  /\ current_frame' = [current_frame EXCEPT ![t] = r.current_frame]
           /\ face_data' = [face_data EXCEPT ![t] = r.face_data]
           /\ sampled' = [sampled EXCEPT ![t] = r.sampled]
           /\ IF r.raised
              THEN /\ Fail(t)
                   /\ cap' = cap
                   /\ report' = StoreBody(PartialBody, now)
              ELSE /\ cap' = [cap EXCEPT ![t] = "released"]
                   /\ pc' = [pc EXCEPT ![t] = "write"]
                   /\ UNCHANGED <<processing, ret, report>>
    /\ UNCHANGED <<stream, frame_count, frame_step, video, now, fresh,
                   oracle,
                   hls, query>>

\* a loop that never comes to the end of the stream
RunLoopForEver(t) ==
    /\ pc[t] = "loop"
    /\ UNCHANGED vars

\* the while loop, then cap.release()
RunLoop(t) ==
    /\ pc[t] = "loop"
    /\ LET r == ReadLoop(stream[t], frame_count[t], frame_step, 0, << >>,
                         << >>)
       IN  /\ current_frame' = [current_frame EXCEPT ![t] = r.current_frame]
           /\ face_data' = [face_data EXCEPT ![t] = r.face_data]
           /\ sampled' = [sampled EXCEPT ![t] = r.sampled]
           /\ IF r.raised
              THEN /\ Fail(t)
                   /\ cap' = cap
              ELSE /\ cap' = [cap EXCEPT ![t] = "released"]
                   /\ pc' = [pc EXCEPT ![t] = "write"]
                   /\ UNCHANGED <<processing, ret>>
    /\ UNCHANGED <<stream, frame_count, frame_step, video, report, now,
                   fresh, oracle,
                   hls, query>>

\* with open(output_path, 'w') as f: the open truncates, or raises
OpenReport(t) ==
    /\ pc[t] = "write"
    /\ \/ /\ report' = Truncate(now)
          /\ pc' = [pc EXCEPT ![t] = "dump"]
          /\ UNCHANGED <<processing, ret>>
       \/ /\ report' = report
          /\ Fail(t)
    /\ UNCHANGED <<locals, frame_step, video, now, fresh, oracle,
                   hls, query>>

\* json.dump in progress: the buffer is flushed, part of the text is on disk
FlushReport(t) ==
    /\ pc[t] = "dump"
    /\ report.body = EmptyBody
    /\ report' = StoreBody(PartialBody, now)
    /\ UNCHANGED <<processing, pc, locals, ret, frame_step, video, now,
                   fresh, oracle,
                   hls, query>>

\* json.dump(...) and the close of the file: the whole text is on disk, or
\* a write raises and the file keeps what had reached it
DumpReport(t) ==
    /\ pc[t] = "dump"
    /\ \/ /\ report' = StoreBody(
                 CompleteBody(ReportData(face_data[t], frame_count[t],
                                         stream[t].fps, current_frame[t],
                                         frame_step)), now)
          /\ fresh' = TRUE
          /\ pc' = [pc EXCEPT ![t] = "finish"]
          /\ UNCHANGED <<processing, ret>>
       \/ /\ report' \in {report, StoreBody(PartialBody, now)}
          /\ fresh' = fresh
          /\ Fail(t)
    /\ UNCHANGED <<locals, frame_step, video, now, oracle,
                   hls, query>>

\* self._processing = False; return True
Finish(t) ==
    /\ pc[t] = "finish"
    /\ processing' = FALSE
    /\ ret' = [ret EXCEPT ![t] = "True"]
    /\ pc' = [pc EXCEPT ![t] = "returned"]
    /\ UNCHANGED <<locals, frame_step, video, report, now, fresh, oracle,
                   hls, query>>

\* the caller has the result; the thread is free for the next request
Return(t) ==
    /\ pc[t] = "returned"
    /\ pc' = [pc EXCEPT ![t] = "idle"]
    /\ ret' = [ret EXCEPT ![t] = "none"]
    /\ cap' = [cap EXCEPT ![t] = "none"]
    /\ stream' = [stream EXCEPT ![t] = NoStream]
    /\ frame_count' = [frame_count EXCEPT ![t] = 0]
    /\ current_frame' = [current_frame EXCEPT ![t] = 0]
    /\ face_data' = [face_data EXCEPT ![t] = << >>]
    /\ sampled' = [sampled EXCEPT ![t] = << >>]
    /\ UNCHANGED <<processing, frame_step, video, report, now, fresh, oracle,
                   hls, query>>

(***************************************************************************)
(* The environment: the clock and the video file.                          *)
(***************************************************************************)
Tick ==
    /\ now < MaxTime
    /\ now' = now + 1
    /\ UNCHANGED <<processing, pc, locals, ret, frame_step, video, report,
                   fresh, oracle,
                   hls, query>>

\* the video is written again: its modification time moves to the clock
TouchVideo ==
    /\ video.exists
    /\ video.mtime < now
    /\ video' = [video EXCEPT !.mtime = now]
    /\ fresh' = FALSE
    /\ UNCHANGED <<processing, pc, locals, ret, frame_step, report, now,
                   oracle,
                   hls, query>>

RemoveVideo ==
    /\ video.exists
    /\ video' = [video EXCEPT !.exists = FALSE]
    /\ UNCHANGED <<processing, pc, locals, ret, frame_step, report, now,
                   fresh, oracle,
                   hls, query>>

\* the video is put back: a new file, stamped with the clock
RestoreVideo ==
    /\ ~video.exists
    /\ video' = VideoFile(TRUE, now, video.content)
    /\ fresh' = FALSE
    /\ UNCHANGED <<processing, pc, locals, ret, frame_step, report, now,
                   oracle,
                   hls, query>>

\* should_process_video(video_path, output_path)
ShouldProcess ==
    /\ oracle' = [called |-> TRUE, video_exists |-> video.exists,
                  video_mtime |-> video.mtime,
                  report_exists |-> report.exists,
                  report_mtime |-> report.mtime,
                  result |-> should_process_video(video, report)]
    /\ oracle' # oracle
    /\ UNCHANGED <<processing, pc, locals, ret, frame_step, video, report,
                   now, fresh,
                   hls, query>>

Session(t) ==
    \/ Guard(t)
    \/ SetRunning(t)
    \/ OpenVideo(t)
    \/ RunLoop(t)
    \/ OpenReport(t)
    \/ FlushReport(t)
    \/ DumpReport(t)
    \/ Finish(t)
    \/ Return(t)

Environment == Tick \/ TouchVideo \/ RemoveVideo \/ RestoreVideo

Next == (\E t \in Threads : Session(t)) \/ Environment

Spec == Init /\ [][Next]_vars

\* one session at a time over every video and stride
InitLoop == InitWith(1..MaxStride \cup {FrameStep}, LoopContents)

NextLoop == \E t \in {1} : Session(t)

SpecLoop == InitLoop /\ [][NextLoop]_vars

\* one session at a time over every frame size and cascade box
InitBox == InitWith({FrameStep}, BoxContents)

SpecBox == InitBox /\ [][NextLoop]_vars

\* the oracle asked of every state of the two files: a video present or
\* not, a report left by an earlier run or none, every order of their times
InitOracle ==
    /\ InitSession({FrameStep})
    /\ playlist = NoPlaylist
    /\ now \in 0..MaxTime
    /\ video \in { VideoFile(ex, t, c) :
                     ex \in BOOLEAN, t \in 0..now, c \in Contents }
    /\ report \in {AbsentReport}
                  \cup { StoreBody(CompleteBody(ReportData(<< >>, 0,
                             NominalFps, 0, FrameStep)), t) : t \in 0..now }

NextOracle == ShouldProcess \/ Environment

SpecOracle == InitOracle /\ [][NextOracle]_vars

\* the sessions under a scheduler that lets every thread run: a thread
\* inside the body of process_video executes its next statement, and the
\* write of the report comes to its end or raises
Body(t) ==
    \/ SetRunning(t)
    \/ OpenVideo(t)
    \/ RunLoop(t)
    \/ OpenReport(t)
    \/ DumpReport(t)
    \/ Finish(t)

NextLive == \E t \in Threads : Session(t)

Fairness == \A t \in Threads : WF_vars(Body(t))

SpecLive == Init /\ [][NextLive]_vars /\ Fairness

(***************************************************************************)
(* The stream encoder supervisor: convert_to_hls (backend/app.py).  Each    *)
(* line of the function that reads or writes the output directory, the     *)
(* video file or the set of workers is a step of its caller.               *)
(***************************************************************************)

\* everything of the detector and of the query endpoints, which the
\* supervisor does not touch
session == <<processing, pc, cap, stream, frame_count, current_frame,
             face_data, sampled, ret, frame_step, report, now, fresh, oracle,
             query>>

\* the video is looked for first: without it the call returns at once and
\* the directory keeps its files
StartChecksFirst(c) ==
    /\ hpc[c] = "idle"
    /\ calls < MaxStarts
    /\ calls' = calls + 1
    /\ attempts' = [attempts EXCEPT ![c] = 0]
    /\ own' = [own EXCEPT ![c] = 0]
    /\ seen' = [seen EXCEPT ![c] = 0]
    /\ IF video.exists
         THEN /\ playlist' = NoPlaylist
              /\ removed' = [removed EXCEPT ![c] = playlist.state]
              /\ hpc' = [hpc EXCEPT ![c] = "check"]
              /\ hret' = [hret EXCEPT ![c] = "none"]
         ELSE /\ hpc' = [hpc EXCEPT ![c] = "returned"]
              /\ hret' = [hret EXCEPT ![c] = "NotFound"]
              /\ UNCHANGED <<playlist, removed>>
    /\ UNCHANGED <<live, video, session>>

\* a call that finds a worker running is turned away
StartSingleFlight(c) ==
    /\ hpc[c] = "idle"
    /\ calls < MaxStarts
    /\ calls' = calls + 1
    /\ attempts' = [attempts EXCEPT ![c] = 0]
    /\ own' = [own EXCEPT ![c] = 0]
    /\ seen' = [seen EXCEPT ![c] = 0]
    /\ IF live = {}
         THEN /\ playlist' = NoPlaylist
              /\ removed' = [removed EXCEPT ![c] = playlist.state]
              /\ hpc' = [hpc EXCEPT ![c] = "check"]
              /\ hret' = [hret EXCEPT ![c] = "none"]
         ELSE /\ hpc' = [hpc EXCEPT ![c] = "returned"]
              /\ hret' = [hret EXCEPT ![c] = "Busy"]
              /\ UNCHANGED <<playlist, removed>>
    /\ UNCHANGED <<live, video, session>>

\* the directory keeps the files it has
StartKeepsFiles(c) ==
    /\ hpc[c] = "idle"
    /\ calls < MaxStarts
    /\ calls' = calls + 1
    /\ hpc' = [hpc EXCEPT ![c] = "check"]
    /\ attempts' = [attempts EXCEPT ![c] = 0]
    /\ own' = [own EXCEPT ![c] = 0]
    /\ seen' = [seen EXCEPT ![c] = 0]
    /\ hret' = [hret EXCEPT ![c] = "none"]
    /\ UNCHANGED <<removed, playlist, live, video, session>>

\* os.makedirs, then every file of the output directory is removed
StartReset(c) ==
    /\ hpc[c] = "idle"
    /\ calls < MaxStarts
    /\ calls' = calls + 1
    /\ playlist' = NoPlaylist
    /\ hpc' = [hpc EXCEPT ![c] = "check"]
    /\ attempts' = [attempts EXCEPT ![c] = 0]
    /\ own' = [own EXCEPT ![c] = 0]
    /\ seen' = [seen EXCEPT ![c] = 0]
    /\ removed' = [removed EXCEPT ![c] = playlist.state]
    /\ hret' = [hret EXCEPT ![c] = "none"]
    /\ UNCHANGED <<live, video, session>>

\* if not os.path.exists(video_path): return None
CheckVideo(c) ==
    /\ hpc[c] = "check"
    /\ IF video.exists
         THEN /\ hpc' = [hpc EXCEPT ![c] = "launch"]
              /\ UNCHANGED hret
         ELSE /\ hpc' = [hpc EXCEPT ![c] = "returned"]
              /\ hret' = [hret EXCEPT ![c] = "NotFound"]
    /\ UNCHANGED <<attempts, own, seen, removed, calls, live, playlist, video,
                   session>>

\* subprocess.Popen starts the worker, or raises (no ffmpeg to run) and the
\* except clause returns None
Launch(c) ==
    /\ hpc[c] = "launch"
    /\ \/ /\ live' = live \cup {calls}
          /\ own' = [own EXCEPT ![c] = calls]
          /\ hpc' = [hpc EXCEPT ![c] = "poll"]
          /\ UNCHANGED hret
       \/ /\ hpc' = [hpc EXCEPT ![c] = "returned"]
          /\ hret' = [hret EXCEPT ![c] = "Failed"]
          /\ UNCHANGED <<live, own>>
    /\ UNCHANGED <<attempts, seen, removed, calls, playlist, video, session>>

\* a playlist file that is there counts, empty or not
PollAcceptsEmpty(c) ==
    /\ hpc[c] = "poll"
    /\ attempts[c] < PollLimit
    /\ IF Exists(playlist)
         THEN /\ hpc' = [hpc EXCEPT ![c] = "returned"]
              /\ hret' = [hret EXCEPT ![c] = "Ready"]
              /\ seen' = [seen EXCEPT ![c] = playlist.writer]
              /\ UNCHANGED attempts
         ELSE /\ attempts' = [attempts EXCEPT ![c] = attempts[c] + 1]
              /\ UNCHANGED <<hpc, hret, seen>>
    /\ UNCHANGED <<own, removed, calls, live, playlist, video, session>>

\* one turn of the for loop: the playlist is there and not empty and its
\* reference is returned, or time.sleep(1)
Poll(c) ==
    /\ hpc[c] = "poll"
    /\ attempts[c] < PollLimit
    /\ IF IsReady(playlist)
         THEN /\ hpc' = [hpc EXCEPT ![c] = "returned"]
              /\ hret' = [hret EXCEPT ![c] = "Ready"]
              /\ seen' = [seen EXCEPT ![c] = playlist.writer]
              /\ UNCHANGED attempts
         ELSE /\ attempts' = [attempts EXCEPT ![c] = attempts[c] + 1]
              /\ UNCHANGED <<hpc, hret, seen>>
    /\ UNCHANGED <<own, removed, calls, live, playlist, video, session>>

\* the loop is over: "Timeout waiting for HLS stream to start", return None
TimeOut(c) ==
    /\ hpc[c] = "poll"
    /\ attempts[c] = PollLimit
    /\ hpc' = [hpc EXCEPT ![c] = "returned"]
    /\ hret' = [hret EXCEPT ![c] = "Timeout"]
    /\ UNCHANGED <<attempts, own, seen, removed, calls, live, playlist, video,
                   session>>

\* the caller has its answer; start_stream serves the next request
NextRequest(c) ==
    /\ hpc[c] = "returned"
    /\ hpc' = [hpc EXCEPT ![c] = "idle"]
    /\ attempts' = [attempts EXCEPT ![c] = 0]
    /\ own' = [own EXCEPT ![c] = 0]
    /\ seen' = [seen EXCEPT ![c] = 0]
    /\ removed' = [removed EXCEPT ![c] = "absent"]
    /\ hret' = [hret EXCEPT ![c] = "none"]
    /\ UNCHANGED <<calls, live, playlist, video, session>>

\* ffmpeg creates the playlist file
WorkerCreates(w) ==
    /\ w \in live
    /\ playlist.state = "absent"
    /\ playlist' = [state |-> "empty", writer |-> w]
    /\ UNCHANGED <<hpc, attempts, own, seen, removed, hret, calls, live,
                   video, session>>

\* ffmpeg writes the playlist with the segments it has encoded so far
WorkerWrites(w) ==
    /\ w \in live
    /\ playlist' = [state |-> "full", writer |-> w]
    /\ playlist' # playlist
    /\ UNCHANGED <<hpc, attempts, own, seen, removed, hret, calls, live,
                   video, session>>

\* ffmpeg ends: the video is encoded, or it could not be
WorkerExits(w) ==
    /\ w \in live
    /\ live' = live \ {w}
    /\ UNCHANGED <<hpc, attempts, own, seen, removed, hret, calls, playlist,
                   video, session>>

convert_to_hls(c) ==
    \/ StartReset(c)
    \/ CheckVideo(c)
    \/ Launch(c)
    \/ Poll(c)
    \/ TimeOut(c)
    \/ NextRequest(c)

Worker(w) == WorkerCreates(w) \/ WorkerWrites(w) \/ WorkerExits(w)

\* the server starts with the output directory as an earlier run left it
InitHls ==
    /\ InitSession({FrameStep})
    /\ now = 0
    /\ video \in { VideoFile(ex, 0, c) : ex \in BOOLEAN, c \in Contents }
    /\ video.content.corrupt = NoFrame
    /\ report = AbsentReport
    /\ playlist \in {NoPlaylist, OldPlaylist}

NextHls ==
    \/ \E c \in Callers : convert_to_hls(c)
    \/ \E w \in Workers : Worker(w)
    \/ RemoveVideo
    \/ RestoreVideo

SpecHls == InitHls /\ [][NextHls]_vars

(***************************************************************************)
(* The query endpoints of backend/app.py: process_video, which wraps the   *)
(* detector's process_video, and face_data.                                *)
(***************************************************************************)

\* json.load of the report and the test of its 'face_detections' key: a
\* file that is empty or cut short raises JSONDecodeError
Parses(r) == r.body.kind = "complete"

\* the cached branch is taken and ends in the "cached" answer
Reusable(v, r) == r.exists /\ ~should_process_video(v, r) /\ Parses(r)

\* a session is between self._processing = True and its reset
SessionRunning == processing

\* the face_data endpoint: 404 without a report, 500 for one that does not
\* parse, else the report
get_face_data(r) ==
    IF ~r.exists THEN 404
    ELSE IF ~Parses(r) THEN 500
    ELSE 200

\* the endpoint up to line 188: the cached answer, the exception of
\* json.load caught at line 199, or on to the call of line 191
Request(t) ==
    /\ pc[t] = "idle"
    /\ resp[t].status # 1
    /\ LET found == [reusable |-> Reusable(video, report),
                     running |-> SessionRunning, first |-> ~report.exists]
       IN  resp' = [resp EXCEPT ![t] =
               IF report.exists /\ ~should_process_video(video, report)
               THEN IF Parses(report)
                    THEN [status |-> 200, cached |-> TRUE, ran |-> FALSE] @@ found
                    ELSE [status |-> 500, cached |-> FALSE, ran |-> FALSE] @@ found
               ELSE [status |-> 1, cached |-> FALSE, ran |-> TRUE] @@ found]
    /\ UNCHANGED <<processing, pc, locals, ret, frame_step, video, report,
                   now, fresh, oracle, hls, face_resp>>

\* success = face_detector.process_video(video_path, output_path)
Call(t) ==
    /\ resp[t].status = 1
    /\ Guard(t)

\* the answer after the call: 200 with "cached": False, or 500
Answer(t) ==
    /\ pc[t] = "returned"
    /\ resp[t].status = 1
    /\ resp' = [resp EXCEPT ![t].status = IF ret[t] = "True" THEN 200 ELSE 500]
    /\ UNCHANGED <<processing, pc, locals, ret, frame_step, video, report,
                   now, fresh, oracle, hls, face_resp>>

\* the request is over
Done(t) ==
    /\ resp[t].status # 1
    /\ Return(t)

\* a request to the face_data endpoint
GetFaceData ==
    /\ face_resp' = [NoResponse EXCEPT !.status = get_face_data(report),
                                       !.running = SessionRunning,
                                       !.first = ~report.exists]
    /\ face_resp' # face_resp
    /\ UNCHANGED <<processing, pc, locals, ret, frame_step, video, report,
                   now, fresh, oracle, hls, resp>>

Endpoint(t) ==
    \/ Request(t)
    \/ Call(t)
    \/ SetRunning(t)
    \/ OpenVideo(t)
    \/ RunLoop(t)
    \/ OpenReport(t)
    \/ FlushReport(t)
    \/ DumpReport(t)
    \/ Finish(t)
    \/ Answer(t)
    \/ Done(t)

\* the server starts with the video in place or none, and no report
InitQueries ==
    /\ Init
    /\ video.content.corrupt = NoFrame

NextQueries ==
    \/ \E t \in Threads : Endpoint(t)
    \/ GetFaceData
    \/ Environment

SpecQueries == InitQueries /\ [][NextQueries]_vars

(***************************************************************************)
(* Claims.                                                                 *)
(***************************************************************************)
\* the thread is past self._processing = True and has not left the call
InBody(t) == pc[t] \in {"open", "loop", "write", "dump", "finish"}

\* the thread is between open(output_path, 'w') and the close of the file
Writing(t) == pc[t] = "dump"

\* C1: of the threads that call process_video at once, at most one is inside
\* the session body and at most one writes the report file.
C1_SingleFlight ==
    /\ Cardinality({ t \in Threads : InBody(t) }) <= 1
    /\ Cardinality({ t \in Threads : Writing(t) }) <= 1

\* C2: a call made while the flag is set returns False at once and changes
\* nothing: the flag stays set, no video is opened, the report file is not
\* written or truncated.
C2_RejectedCallHasNoEffect ==
    [][\A t \in Threads :
          (pc[t] = "idle" /\ processing /\ pc'[t] # "idle")
          => /\ pc'[t] = "returned"
             /\ ret'[t] = "False"
             /\ processing'
             /\ cap'[t] = "none"
             /\ UNCHANGED <<locals, video, report, fresh>>]_vars

\* a thread holds the False of a rejected call while the session that made
\* the flag true is still in its body, over an existing report
C2_Witness ==
    \E t, u \in Threads :
        /\ pc[t] = "returned" /\ ret[t] = "False" /\ cap[t] = "none"
        /\ InBody(u) /\ processing
        /\ report.exists

\* C3: every exit of a call that set the flag leaves the flag false: the
\* success, the failed open, an exception in the loop, an exception in the
\* report write.
C3_FlagResetOnEveryExit ==
    [][\A t \in Threads :
          (InBody(t) /\ pc'[t] = "returned") => ~processing']_vars

\* a call has returned False after its report write raised, the flag false
C3_Witness ==
    \E t \in Threads :
        /\ pc[t] = "returned" /\ ret[t] = "False" /\ cap[t] = "released"
        /\ ~processing

\* C4: a call that fails before the stream is exhausted (the open fails, or
\* the loop raises) returns False and has written nothing to the report
\* file: no step of the call up to and including that return changes it.
C4_FailureWritesNoReport ==
    [][\A t \in Threads :
          (pc[t] \in {"idle", "set", "open", "loop"} /\ pc'[t] # pc[t])
          => /\ report' = report
             /\ pc'[t] = "returned" => ret'[t] = "False"]_vars

\* a call has returned False from an exception in the loop, with a record
\* already accumulated, and there is no report file
C4_Witness ==
    \E t \in Threads :
        /\ pc[t] = "returned" /\ ret[t] = "False" /\ cap[t] = "open"
        /\ Len(face_data[t]) > 0
        /\ ~report.exists

\* C5: the report file is at all times absent or a complete report: no
\* reader can see it empty or partly written.
C5_AtomicReport == report.exists => report.body.kind = "complete"

\* C6: should_process_video is true when there is no report file, false
\* when there is a report and no video, and otherwise true exactly when the
\* video's modification time is greater than the report's.
C6_OracleTable ==
    oracle.called =>
        /\ ~oracle.report_exists => oracle.result = TRUE
        /\ (oracle.report_exists /\ ~oracle.video_exists)
           => oracle.result = FALSE
        /\ (oracle.report_exists /\ oracle.video_exists)
           => (oracle.result <=> oracle.video_mtime > oracle.report_mtime)

\* the oracle answered false for a video and a report of the same, later
\* modification time
C6_Witness ==
    /\ oracle.called /\ oracle.report_exists /\ oracle.video_exists
    /\ oracle.video_mtime = oracle.report_mtime /\ oracle.video_mtime > 0
    /\ oracle.result = FALSE

\* C7: from the moment a session has written its report, the oracle answers
\* false for as long as the video is not touched, also across further
\* sessions; with the video's time moved past the report's it answers true.
C7_StalenessFollowsSessions ==
    /\ fresh => ~should_process_video(video, report)
    /\ (video.exists /\ report.exists /\ video.mtime > report.mtime)
       => should_process_video(video, report)

\* the video was touched after the start, and a session that ran after the
\* touch has returned True: the oracle is back at false
C7_Witness ==
    /\ fresh /\ video.exists /\ video.mtime > 0
    /\ report.exists /\ report.mtime >= video.mtime
    /\ \E t \in Threads : pc[t] = "returned" /\ ret[t] = "True"
    /\ ~should_process_video(video, report)

\* the read loop of the thread ran to the end of the stream
LoopDone(t) == cap[t] = "released"

\* {0, s, 2s, ...} below n
Multiples(s, n) == { k * s : k \in 0..n } \cap 0..(n - 1)

\* C8: a session over a video of n frames with stride s hands to the
\* detector exactly the frames 0, s, 2s, ... below n, each once, in order.
C8_SampledIndices ==
    \A t \in Threads :
        LoopDone(t) =>
            /\ current_frame[t] = stream[t].readable
            /\ { sampled[t][k] : k \in DOMAIN sampled[t] }
                   = Multiples(frame_step, stream[t].readable)
            /\ \A j, k \in DOMAIN sampled[t] :
                   j < k => sampled[t][j] < sampled[t][k]

\* a session with the stride of the program sampled frames 0, 15 and 30 of
\* a video of MaxFrames frames
C8_Witness ==
    \E t \in Threads :
        /\ LoopDone(t) /\ frame_step = FrameStep
        /\ current_frame[t] = MaxFrames
        /\ sampled[t] = <<0, FrameStep, 2 * FrameStep>>

\* cap.read() yielded every frame the container counts
FullyIterated(c) == c.readable = c.frame_count

\* C9: a completed report of a fully iterated video has processed_frames
\* equal to total_frames, the first counting every frame the loop read.
C9_ProcessedEqualsTotal ==
    (report.exists /\ report.body.kind = "complete"
                   /\ FullyIterated(video.content))
    => LET m == report.body.data.metadata
       IN  /\ m.processed_frames = m.total_frames
           /\ m.processed_frames = video.content.readable

\* a completed report of a video of MaxFrames frames, sampled with the
\* stride of the program: processed_frames is MaxFrames, not the 3 sampled
C9_Witness ==
    /\ report.exists /\ report.body.kind = "complete"
    /\ FullyIterated(video.content)
    /\ frame_step = FrameStep
    /\ report.body.data.metadata.processed_frames = MaxFrames
    /\ report.body.data.metadata.total_frames = MaxFrames
    /\ Len(report.body.data.face_detections) = 3

\* the box has no negative part and lies inside a frame of content c
BoxWithin(b, c) ==
    /\ b.x >= 0 /\ b.y >= 0 /\ b.width >= 0 /\ b.height >= 0
    /\ b.x + b.width <= c.width
    /\ b.y + b.height <= c.height

AllWithin(data, c) ==
    \A k \in DOMAIN data :
        \A j \in DOMAIN data[k].faces : BoxWithin(data[k].faces[j], c)

\* C10: every face box a session records, and every face box of a report,
\* is non-negative and inside the original frame, for odd and even frame
\* sizes and every box of the half-resolution image.
C10_BoxesInsideFrame ==
    /\ \A t \in Threads : AllWithin(face_data[t], stream[t])
    /\ (report.exists /\ report.body.kind = "complete")
       => AllWithin(report.body.data.face_detections, video.content)

\* a report holds a box found at the right and lower edge of the
\* half-resolution image of a frame of odd width and odd height
C10_Witness ==
    /\ report.exists /\ report.body.kind = "complete"
    /\ video.content.width % 2 = 1 /\ video.content.height % 2 = 1
    /\ \E k \in DOMAIN report.body.data.face_detections :
         \E j \in DOMAIN report.body.data.face_detections[k].faces :
            LET b == report.body.data.face_detections[k].faces[j]
            IN  /\ b.x > 0 /\ b.y > 0
                /\ b.x + b.width = video.content.width - 1
                /\ b.y + b.height = video.content.height - 1

\* C11: a completed report has a record for frame i exactly when i was
\* sampled (i below the frames read, i a multiple of the stride) and the
\* detector returned a face for it; the record carries the boxes returned
\* for that frame, never an empty list, and there is one record per frame.
C11_RecordIffFaceInSampledFrame ==
    (report.exists /\ report.body.kind = "complete")
    => LET d == report.body.data.face_detections
           n == report.body.data.metadata.processed_frames
           v == video.content
       IN  /\ \A i \in 0..MaxFrames :
                  (\E k \in DOMAIN d : d[k].frame = i)
                  <=> /\ i < n
                      /\ i % frame_step = 0
                      /\ Len(detectMultiScale(v, i)) > 0
           /\ \A k \in DOMAIN d :
                  /\ Len(d[k].faces) > 0
                  /\ d[k].faces = ScaleBack(detectMultiScale(v, d[k].frame))
           /\ \A j, k \in DOMAIN d : j < k => d[j].frame < d[k].frame

\* a video of MaxFrames frames with a face in its first FrameStep + 1
\* frames only: the report has the frames 0 and FrameStep, and no record for
\* the sampled frame 2 * FrameStep
C11_Witness ==
    /\ report.exists /\ report.body.kind = "complete"
    /\ frame_step = FrameStep
    /\ video.content.visible = FrameStep + 1
    /\ report.body.data.metadata.processed_frames = MaxFrames
    /\ Len(report.body.data.face_detections) = 2
    /\ report.body.data.face_detections[1].frame = 0
    /\ report.body.data.face_detections[2].frame = FrameStep

\* C12 as stated: once convert_to_hls has returned None for a missing video,
\* the output directory holds no playlist and get_video answers "not ready".
C12_NoPlaylistAfterNotFound ==
    \A c \in Callers :
        hret[c] = "NotFound"
        => ~Exists(playlist) /\ get_video(playlist) = "not_ready"

\* C12: a call that returns None for a missing video has launched no worker
\* and has removed the playlist it found; a playlist in the directory after
\* it was written since by the worker of an earlier call.
C12_NotFoundLaunchesNothing ==
    \A c \in Callers :
        hret[c] = "NotFound"
        => /\ own[c] = 0
           /\ calls \notin live
           /\ Exists(playlist) => playlist.writer \in 1..(calls - 1)

\* the call found a playlist, removed it and returned None for the missing
\* video: the directory holds no playlist
C12_Witness ==
    \E c \in Callers :
        /\ hret[c] = "NotFound"
        /\ removed[c] = "full"
        /\ ~Exists(playlist)

\* C13: convert_to_hls returns None for a timeout only after PollLimit
\* checks that failed, and as long as no playlist has been produced (none,
\* or an empty one) get_video answers "not ready" after it, worker running
\* or not.
C13_TimeoutThenNotReady ==
    \A c \in Callers :
        hret[c] = "Timeout"
        => /\ attempts[c] = PollLimit
           /\ playlist.state \in {"absent", "empty"}
                  => get_video(playlist) = "not_ready"

\* the call timed out, its worker is still running and has created the
\* playlist file without anything in it
C13_Witness ==
    \E c \in Callers :
        /\ hret[c] = "Timeout"
        /\ own[c] \in live
        /\ playlist = [state |-> "empty", writer |-> own[c]]

\* the phases of a call, in the order the call may take them
PhaseOrder ==
    { <<"idle", "check">>, <<"check", "launch">>, <<"check", "returned">>,
      <<"launch", "poll">>, <<"launch", "returned">>, <<"poll", "poll">>,
      <<"poll", "returned">> }

\* a step of caller c inside one call
CallStep(c) ==
    /\ <<hpc[c], attempts[c], hret[c]>> # <<hpc'[c], attempts'[c], hret'[c]>>
    /\ hpc[c] # "returned"

\* what C14 says of the phases and of the checks: a call goes through
\* not started, launching, polling and then ready or timed out, never back;
\* it checks the playlist at most PollLimit times; a check that finds a
\* playlist that is not empty returns it, any other check is followed by
\* the next or, after the last, by the timeout.
CallPhases ==
    /\ [][\A c \in Callers : CallStep(c) =>
             /\ <<hpc[c], hpc'[c]>> \in PhaseOrder
             /\ attempts'[c] >= attempts[c]
             /\ hpc[c] = "poll" =>
                   /\ hret'[c] = "Ready" <=>
                         (IsReady(playlist) /\ attempts[c] < PollLimit)
                   /\ hret'[c] = "Timeout" <=> attempts[c] = PollLimit
                   /\ hret'[c] = "none" =>
                         /\ attempts'[c] = attempts[c] + 1
                         /\ playlist.state \in {"absent", "empty"}]_vars
    /\ [](\A c \in Callers :
             /\ attempts[c] \in 0..PollLimit
             /\ hret[c] = "Timeout" => attempts[c] = PollLimit
             /\ hret[c] = "Ready" => attempts[c] < PollLimit)

\* C14 as stated: the phases and the checks as above, and a playlist that
\* becomes non-empty at any time before the call has returned makes the
\* call return it.
C14_ReadyWithinWindowYieldsReady ==
    /\ CallPhases
    /\ [](\A c \in Callers :
             (hpc[c] = "poll" /\ IsReady(playlist))
             => attempts[c] < PollLimit)

\* C14: the phases and the checks as above; a playlist that is non-empty at
\* one of the PollLimit checks makes the call return it, and one that
\* becomes non-empty after the last check does not: the call times out.
C14_ReadyAtACheckYieldsReady ==
    /\ CallPhases
    /\ [][\A c \in Callers :
             (CallStep(c) /\ hpc[c] = "poll" /\ IsReady(playlist)
                          /\ attempts[c] = PollLimit)
             => hret'[c] = "Timeout"]_vars

\* a call whose first checks failed and that then found the playlist of its
\* own worker
C14_Witness ==
    \E c \in Callers :
        /\ hret[c] = "Ready"
        /\ attempts[c] > 0
        /\ seen[c] = own[c]

\* C19: convert_to_hls has no guard of its own: whichever workers are
\* running, a call empties the directory and goes on to the video check, and
\* its launch adds a worker to those that run.
C19_NoSingleFlightGuard ==
    /\ [][\A c \in Callers :
             (hpc[c] = "idle" /\ hpc'[c] # "idle")
             => /\ hpc'[c] = "check"
                /\ playlist' = NoPlaylist
                /\ live' = live]_vars
    /\ [][\A c \in Callers :
             (hpc[c] = "launch" /\ hpc'[c] = "poll")
             => /\ own'[c] \notin live
                /\ live' = live \cup {own'[c]}]_vars

\* two workers run at once, and the second call has removed the non-empty
\* playlist of the first: get_video went from ready back to not ready
C19_Witness ==
    \E c \in Callers :
        /\ Cardinality(live) = 2
        /\ own[c] \in live
        /\ removed[c] = "full"
        /\ get_video(playlist) = "not_ready"

IsError(r) == r.status \in {404, 500}

\* C15: a request to face_data or to process_video that arrives while a
\* session is running, or before there is any report, is not answered with
\* an error status.
C15_NotReadyIsNotAnError ==
    /\ (face_resp.running \/ face_resp.first) => ~IsError(face_resp)
    /\ \A t \in Threads :
           (resp[t].running \/ resp[t].first) => ~IsError(resp[t])

\* C16: the process_video endpoint answers "cached" exactly when the report
\* exists, the oracle says no and the report parses with its
\* face_detections; in that case it does not call the detector, and in every
\* other case it does.
C16_ReuseOrRun ==
    \A t \in Threads :
        resp[t].status \notin {0, 1}
        => /\ resp[t].cached <=> resp[t].reusable
           /\ resp[t].ran <=> ~resp[t].cached

\* C17 as stated: when process_video returns after it has opened the video,
\* the capture handle has been released.
C17_HandleReleasedOnReturn ==
    \A t \in Threads : pc[t] = "returned" => cap[t] # "open"

\* C18: under fair scheduling every session that was accepted comes to its
\* return, and a flag that is set is reset: the detector never stays
\* running for ever, and a later call is not rejected for ever.
C18_SessionsTerminate ==
    /\ \A t \in Threads :
           (pc[t] \in {"set", "open", "loop", "write", "dump", "finish"})
               ~> (pc[t] = "returned")
    /\ processing ~> ~processing

\* a session has ended by an exception in its loop, the flag is reset and
\* the call of another thread that came after it has been accepted
C18_Witness ==
    \E t, u \in Threads :
        /\ pc[t] = "returned" /\ ret[t] = "False" /\ cap[t] = "open"
        /\ pc[u] = "set"
        /\ ~processing

=============================================================================
